---- MODULE Spec2Model ----
(***************************************************************************)
(* walrust: repository discovery (RepositoryLocator over a Filesystem) and *)
(* the repository / commit layer (Repository, LocalGitRepository).         *)
(*                                                                         *)
(* Paths of the directory walk are sequences of path segments below the    *)
(* top of the filesystem; <<>> is the top itself.                          *)
(***************************************************************************)
EXTENDS Integers, Sequences, FiniteSets, TLC

\* ------------------------------------------------------------------ bounds
\* Nodes (directories and files) a directory tree holds below its top.
MaxNodes == 3
\* Directories whose listing fails (permission denied, vanished).
MaxUnreadable == 1
\* Ordinary search depths tried, 0..MaxDepth (next to the two largest usize).
MaxDepth == 1
\* Completed locate() calls kept for comparison.
MaxRuns == 2

\* Commits in the history a revision walk yields.
MaxCommits == 2
\* The largest timestamp (seconds) a DateTime can hold, scaled down; a commit
\* may carry one beyond it.
MaxDateTime == 3

\* Hexadecimal digits of a commit id as a string (40 in the engine, scaled).
OidHexLen == 8

\* Nodes below its top of a tree that is walked step by step.
MaxWalkNodes == 2

\* Repositories a locate() of the command-line tool returns.
MaxRepos == 2

\* Characters of the longest string handed to CommitHash::new.
MaxHashLen == 8
\* Characters of the longest author name and of the longest author email.
MaxFieldLen == 2

\* Bytes of the short hash: the end of the slice full_hash[..7].
ShortLen == 7

\* The largest value of the depth type (usize of a 32-bit target).
UsizeMax == 2147483647

\* Segment names of the directory trees: the metadata directory name, and
\* an ordinary name that has it as a string suffix.
GitDir == ".git"
LookAlike == "x.git"
Names == {GitDir, LookAlike}

\* Special segments of the paths handed to Repository::new; the last one
\* stands for a name that is not valid UTF-8.
CurDir == "."
ParentDir == ".."
NonUtf8 == "\\xFF"

\* UTC offsets a commit time carries (scaled: 0 is UTC, 1 is east of it).
Offsets == {0, 1}

NoLocator == [none |-> TRUE]
NoRepo == [none |-> TRUE]
NotFetched == [none |-> TRUE]
NotCalled == [none |-> TRUE]
None == [some |-> FALSE]
Some(v) == [some |-> TRUE, value |-> v]

VARIABLES
    harness,      \* which unit is driven: "locator" or "repository"
    dirs,         \* Filesystem: the paths that are directories
    files,        \* Filesystem: the paths that are regular files
    unreadable,   \* Filesystem: directories whose read_dir fails
    locator,      \* RepositoryLocator {root, depth}, or NoLocator
    runs,         \* completed locate() calls: [root, depth, panicked, repos]
    history,      \* the engine's commits [seconds, offset], in walk order
    git_ok,       \* whether the engine can open a repository at the path
    new_uri,      \* the path last handed to Repository::new
    repo,         \* what Repository::new returned, or NoRepo
    opened,       \* the paths the engine was asked to open, in order
    fetched,      \* what get_commits last returned, or NotFetched
    head_peels,   \* whether what HEAD points at can be peeled to a commit
    headed,       \* what head() last returned, or NotCalled
    full_hash,    \* the string handed to CommitHash::new
    hashed,       \* what CommitHash::new made of it, or NotCalled
    author,       \* a CommitAuthor {name, email}
    rendered,     \* what author.to_string() returned, or NotCalled
    config,       \* walrust: Config {author}, the option of the command line
    identity,     \* walrust: user.name and user.email of the local git config
    located,      \* walrust: what locator.locate() returns to run()
    ran,          \* walrust: what run(config) returned and wrote, or NotCalled
    walkers       \* the locate() calls in progress, each with its call stack

fs_vars == <<dirs, files, unreadable, locator, runs>>
git_vars == <<history, git_ok, new_uri, repo, opened, fetched,
              head_peels, headed>>
commit_vars == <<full_hash, hashed, author, rendered>>
run_vars == <<config, identity, located, ran>>
walk_vars == <<walkers>>
vars == <<harness, dirs, files, unreadable, locator, runs,
          history, git_ok, new_uri, repo, opened, fetched,
          head_peels, headed, full_hash, hashed, author, rendered,
          config, identity, located, ran, walkers>>

\* ------------------------------------------------------------- Filesystem
Top == <<>>

Child(path, name) == Append(path, name)

\* Filesystem::is_dir: false for files and for paths that do not exist.
is_dir(path) == path \in dirs

\* Mutant of ends_with: the last segment's text ends with the given name.
ends_with_text_suffix(path, name) ==
    /\ Len(path) > 0
    /\ \E prefix \in {"", "x"} : path[Len(path)] = prefix \o name

\* Path::ends_with(".git"): the last segment is the given name.
ends_with(path, name) == Len(path) > 0 /\ path[Len(path)] = name

\* The names in a directory, in the order one listing yields them: `order` is
\* a sequence of all Names, the order this listing happens to use.
RECURSIVE ListNames(_, _)
ListNames(path, order) ==
    IF order = <<>> THEN <<>>
    ELSE LET entry == Child(path, Head(order))
             rest == ListNames(path, Tail(order))
         IN IF entry \in dirs \cup files THEN <<entry>> \o rest ELSE rest

\* Filesystem::read_dir: Ok(entries, directories and files alike) or Err.
read_dir(path, order) ==
    IF path \in dirs /\ path \notin unreadable
    THEN [ok |-> TRUE, entries |-> ListNames(path, order)]
    ELSE [ok |-> FALSE, entries |-> <<>>]

\* ------------------------------------------------------ RepositoryLocator
Returned(repos) == [panicked |-> FALSE, repos |-> repos]
Panicked == [panicked |-> TRUE, repos |-> <<>>]

RECURSIVE locate_recursive(_, _, _)
RECURSIVE for_entries(_, _, _, _)

\* Mutant of for_entries: the recursion passes depth on, not depth - 1.
for_entries_no_decrement(path, entries, depth, order) ==
    IF entries = <<>> THEN Returned(<<>>)
    ELSE LET entry_path == Head(entries)
             here == IF is_dir(entry_path)
                     THEN IF ends_with(entry_path, GitDir)
                          THEN Returned(<<path>>)
                          ELSE locate_recursive(entry_path, depth, order)
                     ELSE Returned(<<>>)
             rest == for_entries(path, Tail(entries), depth, order)
         IN IF here.panicked \/ rest.panicked
            THEN Panicked
            ELSE Returned(here.repos \o rest.repos)

\* Mutant of for_entries: the `.git` entry itself is pushed, not its parent.
for_entries_push_entry(path, entries, depth, order) ==
    IF entries = <<>> THEN Returned(<<>>)
    ELSE LET entry_path == Head(entries)
             here == IF is_dir(entry_path)
                     THEN IF ends_with(entry_path, GitDir)
                          THEN Returned(<<entry_path>>)
                          ELSE locate_recursive(entry_path, depth - 1, order)
                     ELSE Returned(<<>>)
             rest == for_entries(path, Tail(entries), depth, order)
         IN IF here.panicked \/ rest.panicked
            THEN Panicked
            ELSE Returned(here.repos \o rest.repos)

\* Mutant of for_entries: an entry is probed whether or not it is a
\* directory.
for_entries_any_entry(path, entries, depth, order) ==
    IF entries = <<>> THEN Returned(<<>>)
    ELSE LET entry_path == Head(entries)
             here == IF ends_with(entry_path, GitDir)
                     THEN Returned(<<path>>)
                     ELSE locate_recursive(entry_path, depth - 1, order)
             rest == for_entries(path, Tail(entries), depth, order)
         IN IF here.panicked \/ rest.panicked
            THEN Panicked
            ELSE Returned(here.repos \o rest.repos)

\* Mutant of for_entries: the loop ends once a `.git` entry has been met,
\* the entries listed after it are not visited.
for_entries_break_at_git(path, entries, depth, order) ==
    IF entries = <<>> THEN Returned(<<>>)
    ELSE LET entry_path == Head(entries)
         IN IF is_dir(entry_path) /\ ends_with(entry_path, GitDir)
            THEN Returned(<<path>>)
            ELSE LET here == IF is_dir(entry_path)
                             THEN locate_recursive(entry_path, depth - 1,
                                                   order)
                             ELSE Returned(<<>>)
                     rest == for_entries(path, Tail(entries), depth, order)
                 IN IF here.panicked \/ rest.panicked
                    THEN Panicked
                    ELSE Returned(here.repos \o rest.repos)

\* The body of the `for entry in ...` loop, folded over the listing.
for_entries(path, entries, depth, order) ==
    IF entries = <<>> THEN Returned(<<>>)
    ELSE LET entry_path == Head(entries)
             here == IF is_dir(entry_path)
                     THEN IF ends_with(entry_path, GitDir)
                          THEN Returned(<<path>>)
                          ELSE locate_recursive(entry_path, depth - 1, order)
                     ELSE Returned(<<>>)
             rest == for_entries(path, Tail(entries), depth, order)
         IN IF here.panicked \/ rest.panicked
            THEN Panicked
            ELSE Returned(here.repos \o rest.repos)

\* Mutant of locate_recursive: the directory is also probed for `.git`
\* before its entries are listed.
locate_recursive_probe_first(path, depth, order) ==
    IF depth = 0 THEN Returned(<<>>)
    ELSE IF is_dir(path)
         THEN LET listing == read_dir(path, order)
                  found == for_entries(path, listing.entries, depth, order)
              IN IF listing.ok /\ ~found.panicked
                 THEN Returned((IF is_dir(Child(path, GitDir))
                                THEN <<path>> ELSE <<>>) \o found.repos)
                 ELSE Panicked
         ELSE Returned(<<>>)

locate_recursive(path, depth, order) ==
    IF depth = 0 THEN Returned(<<>>)
    ELSE IF is_dir(path)
         THEN LET listing == read_dir(path, order)
              IN IF listing.ok
                 THEN for_entries(path, listing.entries, depth, order)
                 ELSE Panicked          \* read_dir(path).unwrap()
         ELSE Returned(<<>>)

\* self.depth + 1 on usize: past UsizeMax a build with overflow checks
\* panics, a build without them wraps to 0.
locate(root, depth, order, overflow_checks) ==
    IF depth = UsizeMax
    THEN IF overflow_checks THEN Panicked
         ELSE locate_recursive(root, 0, order)
    ELSE locate_recursive(root, depth + 1, order)

\* ----------------------------------------------------- Repository entity
\* A path is [absolute, segs]: "/" is [TRUE, <<>>], "repo/.." is
\* [FALSE, <<"repo", "..">>].
PathOf(absolute, segs) == [absolute |-> absolute, segs |-> segs]

\* The paths handed to Repository::new: "", "/", ".", "..", "repo", "/repo",
\* "./repo", "repo/.", "repo/..", "repo/repo", and two with a final name that
\* is not UTF-8.
RepoPaths ==
    {PathOf(FALSE, <<>>), PathOf(TRUE, <<>>),
     PathOf(FALSE, <<CurDir>>), PathOf(FALSE, <<ParentDir>>),
     PathOf(FALSE, <<"repo">>), PathOf(TRUE, <<"repo">>),
     PathOf(FALSE, <<CurDir, "repo">>), PathOf(FALSE, <<"repo", CurDir>>),
     PathOf(FALSE, <<"repo", ParentDir>>), PathOf(FALSE, <<"repo", "repo">>),
     PathOf(FALSE, <<NonUtf8>>), PathOf(FALSE, <<"repo", NonUtf8>>)}

\* Path::components: a "." segment is dropped, except a leading one of a
\* relative path.
Components(path) ==
    LET NotDot(x) == x # CurDir
    IN IF ~path.absolute /\ path.segs # <<>> /\ Head(path.segs) = CurDir
       THEN <<CurDir>> \o SelectSeq(Tail(path.segs), NotDot)
       ELSE SelectSeq(path.segs, NotDot)

\* Path::file_name: the last component when it is a normal name; None for
\* "", ".", "/" and a path ending in "..".
file_name(path) ==
    LET c == Components(path)
    IN IF c = <<>> THEN None
       ELSE IF c[Len(c)] \in {CurDir, ParentDir} THEN None
       ELSE Some(c[Len(c)])

\* OsStr::to_str: None for a name that is not valid UTF-8.
to_str(name) == IF name = NonUtf8 THEN None ELSE Some(name)

\* uri.file_name().and_then(|n| n.to_str()): the name of the repository.
extract_name(uri) ==
    LET n == file_name(uri)
    IN IF n.some THEN to_str(n.value) ELSE None

\* LocalGitRepository::new: Repository::open(path), a GitError when the
\* engine cannot open it.
LocalGitRepository_new(path) ==
    IF git_ok THEN [ok |-> TRUE] ELSE [ok |-> FALSE, error |-> "GitError"]

\* Mutant of Repository_new: the engine is asked to open the path before the
\* name is taken from it.
Repository_new_open_first(uri) ==
    LET vcs == LocalGitRepository_new(uri)
        name == extract_name(uri)
    IN IF ~vcs.ok
       THEN [result |-> [tag |-> "GitError"], opens |-> <<uri>>]
       ELSE IF ~name.some
            THEN [result |-> [tag |-> "PathError", path |-> uri],
                  opens |-> <<uri>>]
            ELSE [result |-> [tag |-> "Ok", uri |-> uri, name |-> name.value],
                  opens |-> <<uri>>]

\* Mutant of Repository_new: the path is stored by its components, which
\* drops `.` segments, not as it was passed in.
Repository_new_store_components(uri) ==
    LET name == extract_name(uri)
    IN IF ~name.some
       THEN [result |-> [tag |-> "PathError", path |-> uri], opens |-> <<>>]
       ELSE LET vcs == LocalGitRepository_new(uri)
            IN IF ~vcs.ok
               THEN [result |-> [tag |-> "GitError"], opens |-> <<uri>>]
               ELSE [result |-> [tag |-> "Ok",
                                 uri |-> PathOf(uri.absolute, Components(uri)),
                                 name |-> name.value],
                     opens |-> <<uri>>]

\* Mutant of Repository_new: a failure to open the engine's handle is
\* dropped and the Repository is built all the same.
Repository_new_ignore_vcs(uri) ==
    LET name == extract_name(uri)
    IN IF ~name.some
       THEN [result |-> [tag |-> "PathError", path |-> uri], opens |-> <<>>]
       ELSE [result |-> [tag |-> "Ok", uri |-> uri, name |-> name.value],
             opens |-> <<uri>>]

\* Repository::new: what it returns and the paths it asked the engine to open.
Repository_new(uri) ==
    LET name == extract_name(uri)
    IN IF ~name.some
       THEN [result |-> [tag |-> "PathError", path |-> uri], opens |-> <<>>]
       ELSE LET vcs == LocalGitRepository_new(uri)
            IN IF ~vcs.ok
               THEN [result |-> [tag |-> "GitError"], opens |-> <<uri>>]
               ELSE [result |-> [tag |-> "Ok", uri |-> uri, name |-> name.value],
                     opens |-> <<uri>>]

\* ----------------------------------------------------------------- commit
\* A string is the sequence of its characters; WideChar stands for a
\* character that takes two bytes in UTF-8, every other one takes one.
WideChar == "U+00E9"
Space == " "

utf8_len(c) == IF c = WideChar THEN 2 ELSE 1

\* str::len: the length of a string in bytes.
RECURSIVE len(_)
len(str) == IF str = <<>> THEN 0 ELSE utf8_len(Head(str)) + len(Tail(str))

\* str[..end]: the characters of the first `end` bytes; a panic when the
\* string has fewer bytes or `end` falls inside a character.
slice_to(str, end) ==
    LET cuts == {k \in 0 .. Len(str) : len(SubSeq(str, 1, k)) = end}
    IN IF cuts = {} THEN [panicked |-> TRUE]
       ELSE [panicked |-> FALSE,
             value |-> SubSeq(str, 1, CHOOSE k \in cuts : TRUE)]

\* CommitHash::new.
CommitHash_new(full) ==
    LET short == slice_to(full, ShortLen)
    IN IF short.panicked THEN [panicked |-> TRUE]
       ELSE [panicked |-> FALSE, short |-> short.value, full |-> full]

\* str::trim: leading and trailing whitespace removed.
RECURSIVE trim_start(_)
trim_start(str) ==
    IF str # <<>> /\ Head(str) = Space THEN trim_start(Tail(str)) ELSE str

RECURSIVE trim_end(_)
trim_end(str) ==
    IF str # <<>> /\ str[Len(str)] = Space
    THEN trim_end(SubSeq(str, 1, Len(str) - 1))
    ELSE str

trim(str) == trim_end(trim_start(str))

\* CommitAuthor::new.
CommitAuthor_new(name, email) == [name |-> name, email |-> email]

\* CommitAuthor::to_string.
CommitAuthor_to_string(self) ==
    LET email == IF self.email = <<>> THEN <<>>
                 ELSE <<"<">> \o self.email \o <<">">>
        name == self.name
    IN IF name = <<>> /\ email = <<>> THEN <<>>
       ELSE trim(name \o <<Space>> \o email)

\* --------------------------------------------------- LocalGitRepository
\* DateTime::from_timestamp(secs, 0): None when out of range.
from_timestamp(secs) ==
    IF secs \in 0 .. MaxDateTime THEN Some(secs) ELSE None

Ok(commits) == [ok |-> TRUE, commits |-> commits]
Err(error) == [ok |-> FALSE, commits |-> <<>>, error |-> error]

\* commit.time().seconds(): the stored timestamp of the i-th commit walked.
time_seconds(i) == history[i].seconds

RECURSIVE walk(_, _, _, _)

\* Mutant of walk: the walk also stops at a commit dated exactly `since`.
walk_stop_at_since(i, since, until, commits) ==
    IF i > Len(history) THEN Ok(commits)
    ELSE LET commit_date == from_timestamp(time_seconds(i))
         IN IF ~commit_date.some THEN Err("GitError")
            ELSE IF commit_date.value <= since THEN Ok(commits)
            ELSE IF commit_date.value <= until
                 THEN walk(i + 1, since, until,
                           Append(commits, [oid |-> i,
                                            commit_date |-> commit_date.value]))
                 ELSE walk(i + 1, since, until, commits)

\* The `for oid in revwalk` loop from the i-th commit of the walk on.
walk(i, since, until, commits) ==
    IF i > Len(history) THEN Ok(commits)
    ELSE LET commit_date == from_timestamp(time_seconds(i))
         IN IF ~commit_date.some THEN Err("GitError")
            ELSE IF commit_date.value < since THEN Ok(commits)      \* break
            ELSE IF commit_date.value <= until
                 THEN walk(i + 1, since, until,
                           Append(commits, [oid |-> i,
                                            commit_date |-> commit_date.value]))
                 ELSE walk(i + 1, since, until, commits)

\* A string is the sequence of its characters.
SentinelHead == <<"H", "E", "A", "D">>

\* Oid::to_string: the id in hexadecimal digits, one string per id (OidHexLen
\* digits, the digit at the id's position set).
oid_to_string(oid) == [k \in 1 .. OidHexLen |-> IF k = oid THEN "b" ELSE "a"]

\* git.head(): the reference HEAD resolves to; the engine fails on the unborn
\* branch of a repository without commits.
git_head ==
    IF history = <<>> THEN [ok |-> FALSE] ELSE [ok |-> TRUE, tip |-> 1]

\* Reference::peel_to_commit: fails when the reference leads to no commit.
peel_to_commit(reference) ==
    IF head_peels THEN [ok |-> TRUE, id |-> reference.tip] ELSE [ok |-> FALSE]

HeadReturned(value) == [panicked |-> FALSE, value |-> value]

\* Mutant of head: the commit is unwrapped, not defaulted.
head_unwrap ==
    LET h == git_head
        c == IF h.ok THEN peel_to_commit(h) ELSE [ok |-> FALSE]
    IN IF c.ok THEN HeadReturned(oid_to_string(c.id))
       ELSE [panicked |-> TRUE, value |-> <<>>]

\* LocalGitRepository::head.
head ==
    LET h == git_head
        c == IF h.ok THEN peel_to_commit(h) ELSE [ok |-> FALSE]
    IN IF c.ok THEN HeadReturned(oid_to_string(c.id))
       ELSE HeadReturned(SentinelHead)

\* revwalk.push_head(): the engine fails when HEAD names no commit (the
\* unborn branch of a repository without commits, or a HEAD that does not
\* peel to a commit).
push_head ==
    IF history = <<>> \/ ~head_peels THEN [ok |-> FALSE] ELSE [ok |-> TRUE]

get_commits(since, until) ==
    IF ~push_head.ok THEN Err("GitError")
    ELSE walk(1, since, until, <<>>)

\* The test double, holding the commits of the history in the order of the
\* walk, each with the date the production handle gives it.
MockGitRepository_commits ==
    [i \in DOMAIN history |->
        [oid |-> i, commit_date |-> history[i].seconds]]

\* MockGitRepository::get_commits: the two filters over all the commits.
MockGitRepository_get_commits(since, until) ==
    LET in_window(commit) ==
            commit.commit_date >= since /\ commit.commit_date <= until
    IN Ok(SelectSeq(MockGitRepository_commits, in_window))

\* ------------------------------------------------ locate(), step by step
\* The calls of locate() that may be in progress at once.
Walkers == {1, 2}

\* A call of locate(): its status, the stack of locate_recursive frames
\* (the innermost last), what it returned, the directories it listed, and
\* whether another call was in progress during it.
Idle ==
    [status |-> "idle", overflow_checks |-> FALSE, stack |-> <<>>,
     result |-> <<>>, listed |-> <<>>, overlapped |-> FALSE]

\* A frame of locate_recursive(path, depth) at its first statement.
Frame(path, depth) ==
    [path |-> path, depth |-> depth, stage |-> "enter", entries |-> <<>>,
     repositories |-> <<>>]

Running(w) == walkers[w].status = "running"

TopFrame(w) == walkers[w].stack[Len(walkers[w].stack)]

\* Mutant of descend_depth: the remaining depth is one counter shared by
\* the calls in progress, each descent taking one off the smallest.
descend_depth_shared(w, depth) ==
    LET depths == {TopFrame(x).depth : x \in {y \in Walkers : Running(y)}}
    IN (CHOOSE d \in depths : \A e \in depths : d <= e) - 1

\* Mutant of descend_depth: the recursion passes depth on undiminished.
descend_depth_same(w, depth) == depth

\* The depth locate_recursive passes to the recursive call.
descend_depth(w, depth) == depth - 1

\* `return repositories` of the innermost frame: the caller extends its own
\* vector by them, and the outermost return ends locate().
returned(walker, repositories) ==
    LET rest == SubSeq(walker.stack, 1, Len(walker.stack) - 1)
    IN IF rest = <<>>
       THEN [walker EXCEPT !.status = "done", !.stack = <<>>,
                           !.result = repositories]
       ELSE [walker EXCEPT
                !.stack = [rest EXCEPT ![Len(rest)].repositories =
                                           @ \o repositories]]

\* A panic unwinds the whole call.
panicked(walker) == [walker EXCEPT !.status = "panicked", !.stack = <<>>]

\* ---------------------------------------------------------------- walrust
\* The outcomes of locate() and of vcs.get_commits as run() sees them.
LocateErr == [ok |-> FALSE]
LocateOk(repositories) == [ok |-> TRUE, repositories |-> repositories]
VcsErr == [ok |-> FALSE]
VcsOk(authors) == [ok |-> TRUE, authors |-> authors]

\* The Commit values of an Ok answer: the i-th has the i-th author, the hash
\* of the i-th id and a title of its own.
CommitsOf(r, authors) ==
    [i \in DOMAIN authors |->
        [title |-> <<r, i>>,
         author |-> authors[i],
         hash |-> CommitHash_new(oid_to_string(i))]]

\* get_local_git_default_author: "Name <email>" when both keys are set.
get_local_git_default_author ==
    IF ~identity.name.some THEN None
    ELSE IF ~identity.email.some THEN None
    ELSE Some(identity.name.value \o <<Space, "<">>
                  \o identity.email.value \o <<">">>)

\* Mutant of resolve_author: an empty author given on the command line
\* counts as none given.
resolve_author_empty_is_absent(cfg) ==
    IF cfg.author.some /\ cfg.author.value # <<>> THEN cfg.author.value
    ELSE LET local == get_local_git_default_author
         IN IF local.some THEN local.value ELSE <<>>

\* config.author.unwrap_or(get_local_git_default_author().unwrap_or_default())
resolve_author(cfg) ==
    IF cfg.author.some THEN cfg.author.value
    ELSE LET local == get_local_git_default_author
         IN IF local.some THEN local.value ELSE <<>>

\* Mutant of author_predicate: the filter is compared with the bare email.
author_predicate_email(author_match, commit) ==
    IF author_match = <<>> THEN TRUE
    ELSE commit.author.email = author_match

\* The closure author_predicate.
author_predicate(author_match, commit) ==
    IF author_match = <<>> THEN TRUE
    ELSE IF CommitAuthor_to_string(commit.author) = author_match THEN TRUE
    ELSE FALSE

\* One line of standard output per commit that passes the filter.
print_commits(author_match, commits) ==
    LET Keep(commit) == author_predicate(author_match, commit)
        Line(commit) == [short |-> commit.hash.short, title |-> commit.title]
        filtered_commits == SelectSeq(commits, Keep)
    IN [i \in DOMAIN filtered_commits |-> Line(filtered_commits[i])]

Wrote(stdout, stderr, queried) ==
    [stdout |-> stdout, stderr |-> stderr, queried |-> queried]

RECURSIVE for_repositories(_, _, _)

\* Mutant of for_repositories: the loop ends at the first repository whose
\* get_commits fails.
for_repositories_stop_at_error(repositories, r, author_match) ==
    IF r > Len(repositories) THEN Wrote(<<>>, <<>>, <<>>)
    ELSE LET commits == repositories[r]
         IN IF commits.ok
            THEN LET rest == for_repositories(repositories, r + 1,
                                              author_match)
                 IN Wrote(print_commits(author_match,
                                        CommitsOf(r, commits.authors))
                              \o rest.stdout,
                          rest.stderr,
                          <<r>> \o rest.queried)
            ELSE Wrote(<<>>, <<[error |-> "Error getting commits",
                               repo |-> r]>>, <<r>>)

\* The loop `for git_repo in &repositories` from the r-th repository on.
for_repositories(repositories, r, author_match) ==
    IF r > Len(repositories) THEN Wrote(<<>>, <<>>, <<>>)
    ELSE LET commits == repositories[r]
             rest == for_repositories(repositories, r + 1, author_match)
         IN IF commits.ok
            THEN Wrote(print_commits(author_match,
                                     CommitsOf(r, commits.authors))
                           \o rest.stdout,
                       rest.stderr,
                       <<r>> \o rest.queried)
            ELSE Wrote(rest.stdout,
                       <<[error |-> "Error getting commits", repo |-> r]>>
                           \o rest.stderr,
                       <<r>> \o rest.queried)

NoRepositoriesFound == [tag |-> "Err", message |-> "No repositories found"]

Ran(result, author_match, out) ==
    [result |-> result, author_match |-> author_match,
     stdout |-> out.stdout, stderr |-> out.stderr, queried |-> out.queried]

\* Mutant of run: a run that printed no commit is reported as a failure.
run_nothing_printed_is_error(cfg) ==
    IF ~located.ok
    THEN Ran(NoRepositoriesFound, <<>>,
             Wrote(<<>>, <<[error |-> "Error locating repositories"]>>, <<>>))
    ELSE IF located.repositories = <<>>
    THEN Ran(NoRepositoriesFound, <<>>, Wrote(<<>>, <<>>, <<>>))
    ELSE LET author_match == resolve_author(cfg)
             out == for_repositories(located.repositories, 1, author_match)
         IN IF out.stdout = <<>>
            THEN Ran(NoRepositoriesFound, author_match, out)
            ELSE Ran([tag |-> "Ok"], author_match, out)

\* run(config): the result, and what was written and queried on the way.
run(cfg) ==
    IF ~located.ok
    THEN Ran(NoRepositoriesFound, <<>>,
             Wrote(<<>>, <<[error |-> "Error locating repositories"]>>, <<>>))
    ELSE IF located.repositories = <<>>
    THEN Ran(NoRepositoriesFound, <<>>, Wrote(<<>>, <<>>, <<>>))
    ELSE LET author_match == resolve_author(cfg)
             out == for_repositories(located.repositories, 1, author_match)
         IN Ran([tag |-> "Ok"], author_match, out)

\* ---------------------------------------------------------------- actions
Nodes == dirs \cup files

Depths == (0 .. MaxDepth) \cup {UsizeMax - 1, UsizeMax}

Orders == {o \in [1 .. Cardinality(Names) -> Names] :
              \A i, j \in DOMAIN o : i # j => o[i] # o[j]}

\* The filesystem is laid out before a locator is made over it.
Building == harness \in {"locator", "walk"} /\ locator = NoLocator

\* The size a tree is built up to.
NodeBound == IF harness = "walk" THEN MaxWalkNodes ELSE MaxNodes

Mkdir(parent, name) ==
    /\ Building
    /\ parent \in dirs
    /\ Child(parent, name) \notin Nodes
    /\ Cardinality(Nodes) <= NodeBound
    /\ dirs' = dirs \cup {Child(parent, name)}
    /\ UNCHANGED <<harness, files, unreadable, locator, runs, git_vars,
                   commit_vars, run_vars,
                   walk_vars>>

Touch(parent, name) ==
    /\ Building
    /\ parent \in dirs
    /\ Child(parent, name) \notin Nodes
    /\ Cardinality(Nodes) <= NodeBound
    /\ files' = files \cup {Child(parent, name)}
    /\ UNCHANGED <<harness, dirs, unreadable, locator, runs, git_vars,
                   commit_vars, run_vars,
                   walk_vars>>

Deny(dir) ==
    /\ Building
    /\ dir \in dirs
    /\ dir \notin unreadable
    /\ Cardinality(unreadable) < MaxUnreadable
    /\ unreadable' = unreadable \cup {dir}
    /\ UNCHANGED <<harness, dirs, files, locator, runs, git_vars,
                   commit_vars, run_vars,
                   walk_vars>>

\* RepositoryLocator::new(filesystem, root, depth); every locator of one
\* scenario searches from the same root, and none is made once MaxRuns calls
\* have completed.
NewLocator(root, depth) ==
    /\ harness = "locator"
    /\ locator # NoLocator => root = locator.root
    /\ Cardinality(runs) < MaxRuns
    /\ locator' = [root |-> root, depth |-> depth]
    /\ UNCHANGED <<harness, dirs, files, unreadable, runs, git_vars,
                   commit_vars, run_vars,
                   walk_vars>>

Locate(order, overflow_checks) ==
    /\ harness = "locator"
    /\ locator # NoLocator
    /\ Cardinality(runs) < MaxRuns
    /\ LET out == locate(locator.root, locator.depth, order, overflow_checks)
       IN runs' = runs \cup {[root |-> locator.root, depth |-> locator.depth,
                              panicked |-> out.panicked, repos |-> out.repos]}
    /\ UNCHANGED <<harness, dirs, files, unreadable, locator, git_vars,
                   commit_vars, run_vars,
                   walk_vars>>

\* Repository::new(uri), once per scenario.
RepositoryNew(uri) ==
    /\ harness = "repository"
    /\ repo = NoRepo
    /\ LET made == Repository_new(uri)
       IN /\ repo' = made.result
          /\ opened' = opened \o made.opens
    /\ new_uri' = uri
    /\ UNCHANGED <<harness, fs_vars, history, git_ok, fetched,
                   head_peels, headed,
                   commit_vars, run_vars,
                   walk_vars>>

\* repo.vcs.get_commits(since, until) on a constructed Repository, one query
\* per scenario.
GetCommits(since, until) ==
    /\ harness = "repository"
    /\ repo # NoRepo
    /\ repo.tag = "Ok"
    /\ fetched = NotFetched
    /\ LET got == get_commits(since, until)
       IN fetched' = [ok |-> got.ok, commits |-> got.commits,
                      since |-> since, until |-> until]
    /\ UNCHANGED <<harness, fs_vars, history, git_ok, new_uri, repo, opened,
                   head_peels, headed,
                   commit_vars, run_vars,
                   walk_vars>>

\* repo.vcs.head() on a constructed Repository.
CallHead ==
    /\ harness = "repository"
    /\ repo # NoRepo
    /\ repo.tag = "Ok"
    /\ headed = NotCalled
    /\ headed' = head
    /\ UNCHANGED <<harness, fs_vars, history, git_ok, new_uri, repo, opened,
                   fetched, head_peels,
                   commit_vars, run_vars,
                   walk_vars>>

\* The search roots: a directory, a regular file, or a path that names
\* nothing.
Roots == Nodes \cup {Child(Top, name) : name \in Names}

\* A locator for calls that are followed step by step.
WalkNewLocator(root, depth) ==
    /\ harness = "walk"
    /\ locator = NoLocator
    /\ locator' = [root |-> root, depth |-> depth]
    /\ UNCHANGED <<harness, dirs, files, unreadable, runs, git_vars,
                   commit_vars, run_vars, walk_vars>>

\* locate() is called: self.depth + 1, then the outermost locate_recursive.
WalkBegin(w, overflow_checks) ==
    /\ harness = "walk"
    /\ locator # NoLocator
    /\ walkers[w].status = "idle"
    /\ LET call == [Idle EXCEPT
                       !.overflow_checks = overflow_checks,
                       !.status = "running",
                       !.overlapped = \E x \in Walkers : Running(x)]
           begun == IF locator.depth = UsizeMax
                    THEN IF overflow_checks THEN panicked(call)
                         ELSE [call EXCEPT
                                  !.stack = <<Frame(locator.root, 0)>>]
                    ELSE [call EXCEPT !.stack =
                             <<Frame(locator.root, locator.depth + 1)>>]
       IN walkers' = [x \in Walkers |->
              IF x = w THEN begun
              ELSE IF Running(x) /\ begun.status = "running"
                   THEN [walkers[x] EXCEPT !.overlapped = TRUE]
                   ELSE walkers[x]]
    /\ UNCHANGED <<harness, fs_vars, git_vars, commit_vars, run_vars>>

\* The head of locate_recursive: the depth test, is_dir, read_dir.
WalkEnter(w, order) ==
    /\ harness = "walk"
    /\ Running(w)
    /\ TopFrame(w).stage = "enter"
    /\ LET walker == walkers[w]
           top == Len(walker.stack)
           frame == walker.stack[top]
           listing == read_dir(frame.path, order)
       IN walkers' = [walkers EXCEPT ![w] =
              IF frame.depth = 0 THEN returned(walker, <<>>)
              ELSE IF ~is_dir(frame.path) THEN returned(walker, <<>>)
              ELSE IF ~listing.ok THEN panicked(walker)
              ELSE [walker EXCEPT
                       !.stack[top].stage = "loop",
                       !.stack[top].entries = listing.entries,
                       !.listed = Append(@, frame.path)]]
    /\ UNCHANGED <<harness, fs_vars, git_vars, commit_vars, run_vars>>

\* One iteration of `for entry in ...`.
WalkEntry(w) ==
    /\ harness = "walk"
    /\ Running(w)
    /\ TopFrame(w).stage = "loop"
    /\ TopFrame(w).entries # <<>>
    /\ LET walker == walkers[w]
           top == Len(walker.stack)
           frame == walker.stack[top]
           entry_path == Head(frame.entries)
           next == [walker EXCEPT !.stack[top].entries = Tail(@)]
       IN walkers' = [walkers EXCEPT ![w] =
              IF ~is_dir(entry_path) THEN next
              ELSE IF ends_with(entry_path, GitDir)
              THEN [next EXCEPT !.stack[top].repositories =
                                    Append(@, frame.path)]
              ELSE [next EXCEPT !.stack =
                       Append(@, Frame(entry_path,
                                       descend_depth(w, frame.depth)))]]
    /\ UNCHANGED <<harness, fs_vars, git_vars, commit_vars, run_vars>>

\* The loop is over: `repositories` is returned to the caller.
WalkReturn(w) ==
    /\ harness = "walk"
    /\ Running(w)
    /\ TopFrame(w).stage = "loop"
    /\ TopFrame(w).entries = <<>>
    /\ walkers' = [walkers EXCEPT ![w] =
                       returned(walkers[w], TopFrame(w).repositories)]
    /\ UNCHANGED <<harness, fs_vars, git_vars, commit_vars, run_vars>>

\* CommitHash::new(full_hash).
CommitHashNew ==
    /\ harness = "hash"
    /\ hashed = NotCalled
    /\ hashed' = CommitHash_new(full_hash)
    /\ UNCHANGED <<harness, fs_vars, git_vars, full_hash, author, rendered,
                   run_vars,
                   walk_vars>>

\* author.to_string().
CommitAuthorToString ==
    /\ harness = "author"
    /\ rendered = NotCalled
    /\ rendered' = [value |-> CommitAuthor_to_string(author)]
    /\ UNCHANGED <<harness, fs_vars, git_vars, full_hash, hashed, author,
                   run_vars,
                   walk_vars>>

\* run(config), start to end.
Run ==
    /\ harness = "walrust"
    /\ ran = NotCalled
    /\ ran' = run(config)
    /\ UNCHANGED <<harness, fs_vars, git_vars, commit_vars,
                   config, identity, located,
                   walk_vars>>

\* The strings of at most n characters over an alphabet.
StringsOver(alphabet, n) == UNION {[1 .. k -> alphabet] : k \in 0 .. n}

HashChars == {"a", "b", WideChar}
HashStrings == StringsOver(HashChars, MaxHashLen)

FieldChars == {Space, "x"}
Authors == {CommitAuthor_new(name, email) :
               name \in StringsOver(FieldChars, MaxFieldLen),
               email \in StringsOver(FieldChars, MaxFieldLen)}

NoAuthor == CommitAuthor_new(<<>>, <<>>)

\* The authors of the commits the tool meets, two that differ in case only.
RunAuthors == {CommitAuthor_new(<<"A">>, <<"e">>),
               CommitAuthor_new(<<"a">>, <<"e">>)}

\* The values of --author: absent, empty, a whole "Name <email>", a bare
\* email, a bare name.
ConfigAuthors == {None, Some(<<>>), Some(<<"A", Space, "<", "e", ">">>),
                  Some(<<"e">>), Some(<<"A">>)}

\* The local git configuration: no identity, a name alone, name and email.
Identities == {[name |-> None, email |-> None],
               [name |-> Some(<<"a">>), email |-> None],
               [name |-> Some(<<"a">>), email |-> Some(<<"e">>)]}

\* What vcs.get_commits answers for one repository: an error, or the
\* commits of the window, given by their authors.
VcsOutcomes ==
    {VcsErr} \cup {VcsOk(authors) :
                      authors \in StringsOver(RunAuthors, MaxCommits)}

\* What locate() answers: an error, or the repositories found.
LocateOutcomes ==
    {LocateErr} \cup {LocateOk(repositories) :
                         repositories \in StringsOver(VcsOutcomes, MaxRepos)}

Times == 0 .. MaxDateTime

CommitTimes == [seconds : 0 .. (MaxDateTime + 1), offset : Offsets]

Histories == UNION {[1 .. n -> CommitTimes] : n \in 0 .. MaxCommits}

NoConfig == [author |-> None]
NoIdentity == [name |-> None, email |-> None]

InitLocator ==
    /\ harness = "locator"
    /\ history = <<>>
    /\ git_ok = FALSE
    /\ head_peels = FALSE
    /\ full_hash = <<>>
    /\ author = NoAuthor
    /\ config = NoConfig /\ identity = NoIdentity /\ located = LocateErr

InitRepository ==
    /\ harness = "repository"
    /\ history \in Histories
    /\ git_ok \in BOOLEAN
    /\ head_peels \in BOOLEAN
    /\ full_hash = <<>>
    /\ author = NoAuthor
    /\ config = NoConfig /\ identity = NoIdentity /\ located = LocateErr

InitHash ==
    /\ harness = "hash"
    /\ history = <<>>
    /\ git_ok = FALSE
    /\ head_peels = FALSE
    /\ full_hash \in HashStrings
    /\ author = NoAuthor
    /\ config = NoConfig /\ identity = NoIdentity /\ located = LocateErr

InitWalrust ==
    /\ harness = "walrust"
    /\ history = <<>>
    /\ git_ok = FALSE
    /\ head_peels = FALSE
    /\ full_hash = <<>>
    /\ author = NoAuthor
    /\ config \in [author : ConfigAuthors]
    /\ identity \in Identities
    /\ located \in LocateOutcomes

InitAuthor ==
    /\ harness = "author"
    /\ history = <<>>
    /\ git_ok = FALSE
    /\ head_peels = FALSE
    /\ full_hash = <<>>
    /\ author \in Authors
    /\ config = NoConfig /\ identity = NoIdentity /\ located = LocateErr

InitWalk ==
    /\ harness = "walk"
    /\ history = <<>>
    /\ git_ok = FALSE
    /\ head_peels = FALSE
    /\ full_hash = <<>>
    /\ author = NoAuthor
    /\ config = NoConfig /\ identity = NoIdentity /\ located = LocateErr

\* What every unit starts from.
InitState ==
    /\ dirs = {Top}
    /\ files = {}
    /\ unreadable = {}
    /\ locator = NoLocator
    /\ runs = {}
    /\ new_uri = NoRepo
    /\ repo = NoRepo
    /\ opened = <<>>
    /\ fetched = NotFetched
    /\ headed = NotCalled
    /\ hashed = NotCalled
    /\ rendered = NotCalled
    /\ ran = NotCalled
    /\ walkers = [w \in Walkers |-> Idle]

Init ==
    /\ InitLocator \/ InitRepository \/ InitHash \/ InitAuthor
          \/ InitWalrust
    /\ InitState

Next ==
    \/ \E parent \in dirs, name \in Names : Mkdir(parent, name)
    \/ \E parent \in dirs, name \in Names : Touch(parent, name)
    \/ \E dir \in dirs : Deny(dir)
    \/ \E root \in Nodes, depth \in Depths : NewLocator(root, depth)
    \/ \E order \in Orders, overflow_checks \in BOOLEAN :
           Locate(order, overflow_checks)
    \/ \E uri \in RepoPaths : RepositoryNew(uri)
    \/ \E since \in Times, until \in Times : GetCommits(since, until)
    \/ CallHead
    \/ CommitHashNew
    \/ CommitAuthorToString
    \/ Run

Spec == Init /\ [][Next]_vars

\* locate() followed step by step, with calls in progress at once.
WalkInit == InitWalk /\ InitState

\* The steps of one call once it has begun.
WalkStep(w) ==
    \/ \E order \in Orders : WalkEnter(w, order)
    \/ WalkEntry(w)
    \/ WalkReturn(w)

WalkNext ==
    \/ \E parent \in dirs, name \in Names : Mkdir(parent, name)
    \/ \E parent \in dirs, name \in Names : Touch(parent, name)
    \/ \E dir \in dirs : Deny(dir)
    \/ \E root \in Roots, depth \in Depths : WalkNewLocator(root, depth)
    \/ \E w \in Walkers, overflow_checks \in BOOLEAN :
           WalkBegin(w, overflow_checks)
    \/ \E w \in Walkers : WalkStep(w)

WalkSpec == WalkInit /\ [][WalkNext]_vars

\* A call in progress keeps running: the code is sequential and blocking.
FairWalkSpec == WalkSpec /\ \A w \in Walkers : WF_vars(WalkStep(w))

\* ----------------------------------------------------------- vocabulary
\* The URIs a completed locate() call returned.
Found(call) == {call.repos[i] : i \in DOMAIN call.repos}

\* `path` is `root` or lies below it.
IsBelow(root, path) ==
    /\ Len(root) <= Len(path)
    /\ SubSeq(path, 1, Len(root)) = root

StrictlyBelow(root, path) == IsBelow(root, path) /\ path # root

\* Directory levels from `root` down to `path`.
Level(root, path) == Len(path) - Len(root)

\* A directory with a `.git` directory child.
HasGitDir(path) == path \in dirs /\ Child(path, GitDir) \in dirs

\* A `.git` segment lies on the way from `root` down to `path`.
InsideGitDir(root, path) ==
    \E i \in (Len(root) + 1) .. Len(path) : path[i] = GitDir

\* Every directory from `root` down to `path`, both included, can be listed.
ReadableDownTo(root, path) ==
    \A i \in Len(root) .. Len(path) : SubSeq(path, 1, i) \notin unreadable

\* ------------------------------------------------------------------ C1
\* C1 (as claimed): with search_depth = N, a directory with a `.git`
\* directory child lying k levels below the search root is returned by
\* locate() if k <= N, and no directory with k > N is returned.
C1_DepthBound ==
    \A call \in runs :
        /\ \A d \in dirs :
              (IsBelow(call.root, d) /\ HasGitDir(d)
                  /\ Level(call.root, d) <= call.depth) => d \in Found(call)
        /\ \A d \in Found(call) : Level(call.root, d) <= call.depth

C3_MonotoneInDepth ==
    \A r1 \in runs, r2 \in runs :
        (/\ r1.root = r2.root
         /\ r1.depth < UsizeMax
         /\ r2.depth = r1.depth + 1) => Found(r1) \subseteq Found(r2)

\* ------------------------------------------------------------------ C4
\* C4 (as claimed): no URI returned by locate() has `.git` as its final
\* segment.
C4_NeverGitDir ==
    \A call \in runs : \A uri \in Found(call) : ~ends_with(uri, GitDir)

\* C4 (amended): every URI returned by locate() is the parent of a `.git`
\* directory, and none but the search root itself can have `.git` as its
\* final segment: a `.git` directory met during the walk is never returned.
C4_ParentOfGitDir ==
    \A call \in runs : \A uri \in Found(call) :
        /\ HasGitDir(uri)
        /\ ends_with(uri, GitDir) => uri = call.root

\* A walk met a `.git` directory below the root and returned its parent.
C4_Witness ==
    \E call \in runs : \E uri \in Found(call) :
        StrictlyBelow(call.root, uri) /\ Child(uri, GitDir) \in dirs

\* ------------------------------------------------------------------ C5
\* C5 (as claimed): once a directory D is returned as a repository, no URI
\* strictly below D is returned.
C5_OneRepositoryPerRoot ==
    \A call \in runs : \A d \in Found(call), uri \in Found(call) :
        ~StrictlyBelow(d, uri)

\* ------------------------------------------------------------------ C6
\* The repositories a walk that survives a failed listing would return: those
\* within the depth bound that are reached through listable directories
\* without entering a `.git` directory.
ReadableRepositories(root, depth) ==
    {d \in dirs : /\ IsBelow(root, d)
                  /\ HasGitDir(d)
                  /\ Level(root, d) <= depth
                  /\ ~InsideGitDir(root, d)
                  /\ ReadableDownTo(root, d)}

\* C6 (as claimed): when read_dir fails for a directory visited by locate(),
\* that branch contributes nothing and the walk goes on: locate() completes
\* and returns every repository of the branches that could be read. (Depths
\* whose increment overflows are left to C27.)
C6_PartialFailure ==
    \A call \in runs :
        call.depth < UsizeMax =>
            /\ ~call.panicked
            /\ Found(call) = ReadableRepositories(call.root, call.depth)

\* ------------------------------------------------------------------ C7
\* The i-th commit of the walk has a date within [since, until].
Qualifies(i, since, until) ==
    /\ from_timestamp(history[i].seconds).some
    /\ since <= history[i].seconds
    /\ history[i].seconds <= until

Fetched == fetched # NotFetched

\* C7 (as claimed): every commit get_commits(since, until) returns has
\* since <= commit_date <= until, and when no commit qualifies the result
\* is Ok with an empty list, never an error.
C7_WindowSoundness ==
    Fetched =>
        /\ \A i \in DOMAIN fetched.commits :
              /\ fetched.since <= fetched.commits[i].commit_date
              /\ fetched.commits[i].commit_date <= fetched.until
        /\ (\A i \in DOMAIN history :
               ~Qualifies(i, fetched.since, fetched.until))
              => (fetched.ok /\ fetched.commits = <<>>)

\* ------------------------------------------------------------------ C8
\* The commits (by position in the walk) a get_commits call returned.
FetchedOids == {fetched.commits[i].oid : i \in DOMAIN fetched.commits}

NonIncreasing ==
    \A i \in DOMAIN history, j \in DOMAIN history :
        i < j => history[i].seconds >= history[j].seconds

C9_OffsetApplied ==
    Fetched =>
        \A i \in DOMAIN fetched.commits :
            LET c == fetched.commits[i]
            IN c.commit_date = history[c.oid].seconds + history[c.oid].offset

\* ----------------------------------------------------------------- C10
\* The path has no final segment that can be taken as a name.
NoName(path) == ~extract_name(path).some

\* C10: Repository::new(path) returns PathError when the path has no
\* extractable final segment, whether or not the engine could open the path,
\* and the engine is not asked to open it.
C10_PathErrorFirst ==
    (repo # NoRepo /\ NoName(new_uri)) =>
        /\ repo = [tag |-> "PathError", path |-> new_uri]
        /\ opened = <<>>

\* Repository::new("..") came back with PathError although the engine would
\* have opened the path.
C10_Witness ==
    /\ repo # NoRepo
    /\ new_uri = [absolute |-> FALSE, segs |-> <<ParentDir>>]
    /\ git_ok
    /\ repo.tag = "PathError"

\* ----------------------------------------------------------------- C11
\* The last segment of a path that is not a `.` segment.
FinalSegment(path) ==
    LET NotDot(x) == x # CurDir
        named == SelectSeq(path.segs, NotDot)
    IN named[Len(named)]

Constructed == repo # NoRepo /\ repo.tag = "Ok"

\* C11: when Repository::new(path) succeeds, get_uri() is the path as it was
\* passed in and get_name() is the final segment of that path (a trailing
\* `.` does not count as a segment), and both are still so after get_commits.
C11_UriAndNameKept ==
    Constructed =>
        /\ repo.uri = new_uri
        /\ repo.name = FinalSegment(new_uri)

\* A Repository built from a path that differs from its components, queried
\* for commits, still answering the path and the name it was built with.
C11_Witness ==
    /\ Constructed
    /\ Fetched
    /\ new_uri = PathOf(FALSE, <<"repo", CurDir>>)
    /\ repo.uri = new_uri
    /\ repo.name = "repo"

\* ----------------------------------------------------------------- C12
\* C12: Repository::new(path) on a path with a valid name that the engine
\* cannot open returns the engine's error (GitError), not a Repository, after
\* asking the engine to open exactly that path.
C12_OpenFailureIsGitError ==
    (repo # NoRepo /\ ~NoName(new_uri) /\ ~git_ok) =>
        /\ repo = [tag |-> "GitError"]
        /\ opened = <<new_uri>>

\* Repository::new("repo") failed with GitError on a path the engine could
\* not open.
C12_Witness ==
    /\ repo # NoRepo
    /\ new_uri = PathOf(FALSE, <<"repo">>)
    /\ ~git_ok
    /\ repo.tag = "GitError"

\* ----------------------------------------------------------------- C13
\* HEAD resolves to a reference and the reference peels to a commit.
HeadResolves == history # <<>> /\ head_peels

\* C13: head() never fails: it returns the id of the tip commit when HEAD
\* resolves to a commit, and the literal "HEAD" whenever HEAD cannot be
\* resolved or cannot be peeled to a commit.
C13_HeadNeverFails ==
    headed # NotCalled =>
        /\ ~headed.panicked
        /\ HeadResolves => headed.value = oid_to_string(1)
        /\ ~HeadResolves => headed.value = SentinelHead

\* head() answered "HEAD" on a repository without commits.
C13_Witness ==
    /\ headed # NotCalled
    /\ history = <<>>
    /\ headed = HeadReturned(SentinelHead)

\* ----------------------------------------------------------------- C14
RanOk == ran # NotCalled /\ ran.result.tag = "Ok"

\* The commits (by title) run() printed a line for.
Printed == {ran.stdout[i].title : i \in DOMAIN ran.stdout}

\* The i-th commit get_commits answered for the r-th repository.
Answered(r, i) ==
    /\ located.repositories[r].ok
    /\ i \in DOMAIN located.repositories[r].authors

\* C14: with an empty author_match every commit passes the filter; with a
\* non-empty author_match a commit is kept if and only if its formatted
\* author string, CommitAuthor.to_string(), is exactly author_match: no
\* partial match (a bare name, a bare email) and none that ignores case.
C14_AuthorFilterExact ==
    RanOk =>
        \A r \in DOMAIN located.repositories :
            \A i \in 1 .. MaxCommits + 1 :
                Answered(r, i) =>
                    LET a == located.repositories[r].authors[i]
                    IN (<<r, i>> \in Printed) <=>
                           \/ ran.author_match = <<>>
                           \/ CommitAuthor_to_string(a) = ran.author_match

\* A run filtered by "A <e>" over a repository with a commit of that author
\* and one of "a <e>": the first was printed, the second was not.
C14_Witness ==
    /\ RanOk
    /\ ran.author_match = <<"A", Space, "<", "e", ">">>
    /\ \E r \in DOMAIN located.repositories :
           /\ located.repositories[r].ok
           /\ located.repositories[r].authors =
                  <<CommitAuthor_new(<<"A">>, <<"e">>),
                    CommitAuthor_new(<<"a">>, <<"e">>)>>
           /\ <<r, 1>> \in Printed
           /\ <<r, 2>> \notin Printed

Failed(r) ==
    /\ located.ok
    /\ r \in DOMAIN located.repositories
    /\ ~located.repositories[r].ok

\* The entries of a sequence.
Range(seq) == {seq[i] : i \in DOMAIN seq}

C17_ShortIsFirstSeven ==
    (hashed # NotCalled /\ Len(full_hash) >= ShortLen) =>
        /\ ~hashed.panicked
        /\ hashed.full = full_hash
        /\ hashed.short = SubSeq(full_hash, 1, ShortLen)

\* ----------------------------------------------------------------- C18
\* C18 (as claimed): CommitHash::new on a full hash shorter than 7
\* characters, the empty string included, ends in a defined error: it does
\* not panic and it yields no hash.
C18_ShortInputIsError ==
    (hashed # NotCalled /\ len(full_hash) < ShortLen) =>
        /\ ~hashed.panicked
        /\ "short" \notin DOMAIN hashed

\* ----------------------------------------------------------------- C19
\* C19 (as claimed): to_string() renders both fields empty as "", a name
\* alone as the name, an email alone as "<email>", and both as the name, one
\* space, the email in angle brackets.
C19_FourCases ==
    rendered # NotCalled =>
        rendered.value =
            IF author.name = <<>> /\ author.email = <<>> THEN <<>>
            ELSE IF author.email = <<>> THEN author.name
            ELSE IF author.name = <<>>
                 THEN <<"<">> \o author.email \o <<">">>
            ELSE author.name \o <<Space, "<">> \o author.email \o <<">">>

\* ----------------------------------------------------------------- C20
\* C20: the set of URIs locate() returns does not depend on the order in
\* which read_dir lists the entries of a directory: over one tree, two
\* calls with the same root and depth return the same set of URIs, whatever
\* the listing orders were (the sequences may differ).
C20_OrderIndependent ==
    \A r1 \in runs, r2 \in runs :
        (r1.root = r2.root /\ r1.depth = r2.depth) => Found(r1) = Found(r2)

\* Two calls with the same root and depth whose listings came in different
\* orders: the URIs came back in different sequences, the sets are equal.
C20_Witness ==
    \E r1 \in runs, r2 \in runs :
        /\ r1.root = r2.root /\ r1.depth = r2.depth
        /\ r1.repos # r2.repos
        /\ Found(r1) = Found(r2)
        /\ Cardinality(Found(r1)) = 2
\* ------------------------------------------------------------------ C21
Ended(w) == walkers[w].status \in {"done", "panicked"}

\* What one call of locate() alone gives on the tree as it is.
Isolated(w, order) ==
    locate(locator.root, locator.depth, order, walkers[w].overflow_checks)

C21_SameAsIsolated ==
    \A w \in Walkers : Ended(w) =>
        \A order \in Orders :
            /\ (walkers[w].status = "panicked") = Isolated(w, order).panicked
            /\ walkers[w].status = "done" =>
                   Range(walkers[w].result) = Found(Isolated(w, order))

\* C21: locate() never changes the locator's root or depth, and each of
\* the calls on one locator over an unchanged tree, run one after another
\* or interleaved step by step, ends as an isolated call does, with the same
\* set of URIs.
C21_Reentrant ==
    /\ []C21_SameAsIsolated
    /\ [][locator # NoLocator => locator' = locator]_vars

\* C21 witness: two calls that were in progress together have both
\* returned a repository found below the root.
C21_Witness ==
    \A w \in Walkers :
        /\ walkers[w].status = "done"
        /\ walkers[w].overlapped
        /\ Len(walkers[w].listed) > 1
        /\ walkers[w].result # <<>>

\* ------------------------------------------------------------------ C22
\* C22: over a root that does not exist or is not a directory, locate()
\* returns the empty set for every depth, without calling read_dir and
\* without raising an error.
C22_NoDirectoryNoResult ==
    (locator # NoLocator /\ ~is_dir(locator.root)) =>
        \A w \in Walkers : Ended(w) =>
            /\ walkers[w].status = "done"
            /\ walkers[w].result = <<>>
            /\ walkers[w].listed = <<>>

\* ------------------------------------------------------------------ C23
\* The local identity as "Name <email>", when both parts are configured.
HasIdentity == identity.name.some /\ identity.email.some

LocalIdentity ==
    identity.name.value \o <<Space, "<">> \o identity.email.value \o <<">">>

\* Every commit that was answered for a repository was printed.
NothingFiltered ==
    \A r \in DOMAIN located.repositories :
        \A i \in 1 .. MaxCommits + 1 : Answered(r, i) => <<r, i>> \in Printed

\* C23: an author given on the command line is the filter as given, and an
\* empty one disables filtering even when a local identity is configured;
\* with no author given the filter is the local identity "Name <email>",
\* and it is empty (no filtering) when that identity is unavailable.
C23_AuthorResolution ==
    RanOk =>
        /\ config.author.some => ran.author_match = config.author.value
        /\ config.author = Some(<<>>) => NothingFiltered
        /\ (~config.author.some /\ HasIdentity) =>
               ran.author_match = LocalIdentity
        /\ (~config.author.some /\ ~HasIdentity) =>
               ran.author_match = <<>> /\ NothingFiltered

\* C23 witness: a run with the empty author given and a local identity
\* configured printed a commit of somebody else.
C23_Witness ==
    /\ RanOk
    /\ config.author = Some(<<>>)
    /\ HasIdentity
    /\ \E r \in DOMAIN located.repositories :
           /\ Answered(r, 1)
           /\ CommitAuthor_to_string(located.repositories[r].authors[1])
                  # LocalIdentity
           /\ <<r, 1>> \in Printed

\* ------------------------------------------------------------------ C24
\* A segment named like LookAlike lies on the way from `root` down to `path`.
ThroughLookAlike(root, path) ==
    \E i \in (Len(root) + 1) .. Len(path) : path[i] = LookAlike

\* C24: the probe matches a whole path segment: a child directory makes its
\* parent a repository only if its last segment is exactly `.git`; a
\* directory `x.git` does not, and it is descended into like any other
\* directory, so repositories below it are found. (Calls that end in a
\* panic, and the depth whose increment overflows, are C6's and C27's.)
C24_WholeSegment ==
    \A call \in runs :
        (~call.panicked /\ call.depth < UsizeMax) =>
            /\ \A d \in dirs :
                   (Child(d, LookAlike) \in dirs /\ Child(d, GitDir) \notin dirs)
                       => d \notin Found(call)
            /\ \A uri \in Found(call) : Child(uri, GitDir) \in dirs
            /\ \A d \in dirs :
                   ( /\ IsBelow(call.root, d)
                     /\ ThroughLookAlike(call.root, d)
                     /\ ~InsideGitDir(call.root, d)
                     /\ Level(call.root, d) <= call.depth
                     /\ HasGitDir(d) ) => d \in Found(call)

\* C24 witness: a root holding `x.git` and no `.git` was searched; the
\* root was not returned and the repository `x.git` itself was.
C24_Witness ==
    \E call \in runs :
        /\ ~call.panicked
        /\ Child(call.root, LookAlike) \in dirs
        /\ Child(call.root, GitDir) \notin dirs
        /\ call.root \notin Found(call)
        /\ Child(call.root, LookAlike) \in Found(call)

\* ------------------------------------------------------------------ C25
\* Every date of the history is one a Commit of the test double can hold.
Representable ==
    \A i \in DOMAIN history : from_timestamp(history[i].seconds).some

\* C25: for every history yielded newest first and every since/until,
\* LocalGitRepository::get_commits and MockGitRepository::get_commits return
\* the same commits in the same order.
C25_MockAgrees ==
    (Fetched /\ NonIncreasing /\ Representable) =>
        LET mock == MockGitRepository_get_commits(fetched.since, fetched.until)
        IN /\ fetched.ok = mock.ok
           /\ fetched.commits = mock.commits

\* ------------------------------------------------------------------ C26
\* The remaining depth goes down by exactly one from each frame of a call
\* to the frame it descended into.
DescentsByOne ==
    \A w \in Walkers :
        \A i \in 1 .. Len(walkers[w].stack) - 1 :
            walkers[w].stack[i + 1].depth = walkers[w].stack[i].depth - 1

\* No call has listed a directory twice.
ListedOnce ==
    \A w \in Walkers :
        \A i, j \in DOMAIN walkers[w].listed :
            i # j => walkers[w].listed[i] # walkers[w].listed[j]

\* No call is ever more than `extra` frames deeper than search_depth.
NestedWithin(extra) ==
    \A w \in Walkers : Len(walkers[w].stack) - extra <= locator.depth

\* Every call that has begun ends, by returning or by a panic.
Terminates == \A w \in Walkers : Running(w) ~> Ended(w)

\* C26 (as claimed): locate() always terminates on a finite tree: the
\* remaining depth decreases by one at every descent, the recursion is
\* never deeper than search_depth + 1 calls, and each directory is listed
\* at most once.
C26_TerminatesWithinDepthPlusOne ==
    /\ [](locator # NoLocator => DescentsByOne /\ ListedOnce /\ NestedWithin(1))
    /\ Terminates

\* C26 (amended): the same, with the recursion never deeper than
\* search_depth + 2 calls: the innermost one is entered with remaining depth
\* 0 and returns at once.
C26_TerminatesWithinDepthPlusTwo ==
    /\ [](locator # NoLocator => DescentsByOne /\ ListedOnce /\ NestedWithin(2))
    /\ Terminates

\* C26 witness: one call has ended after listing two directories while the
\* other is search_depth + 2 calls deep, in the call that finds depth 0.
C26_Witness ==
    \E w, x \in Walkers :
        /\ walkers[w].status = "done"
        /\ Len(walkers[w].listed) = 2
        /\ Running(x)
        /\ Len(walkers[x].stack) - 2 = locator.depth
        /\ TopFrame(x).depth = 0

\* ------------------------------------------------------------------ C27
\* C27: for every search_depth, usize::MAX included, locate() starts the
\* recursion with search_depth + 1, which is greater than zero: the
\* increment neither panics nor wraps to 0, so a call only panics for a
\* listing that fails, and a larger search_depth never finds fewer
\* repositories.
C27_StartingDepth ==
    \A w \in Walkers :
        /\ Running(w) =>
               /\ walkers[w].stack[1].depth - 1 = locator.depth
               /\ walkers[w].stack[1].depth > 0
        /\ walkers[w].status = "panicked" => unreadable # {}
        /\ walkers[w].status = "done" =>
               \A depth \in Depths, order \in Orders :
                   LET less == locate(locator.root, depth, order, FALSE)
                   IN (depth < locator.depth /\ ~less.panicked) =>
                          Found(less) \subseteq Range(walkers[w].result)

\* ------------------------------------------------------------------ C28
\* C28: only a directory counts as the metadata directory: a directory
\* whose `.git` entry is a regular file is not returned by locate(), and
\* every URI returned is a directory with a child named `.git` that is a
\* directory itself.
C28_MetadataIsDirectory ==
    \A call \in runs :
        /\ \A d \in dirs : Child(d, GitDir) \in files => d \notin Found(call)
        /\ \A uri \in Found(call) :
               is_dir(uri) /\ is_dir(Child(uri, GitDir))

\* C28 witness: a search listed a root whose `.git` is a regular file,
\* left it out and returned a repository below it.
C28_Witness ==
    \E call \in runs :
        /\ Child(call.root, GitDir) \in files
        /\ call.root \notin Found(call)
        /\ \E uri \in Found(call) : StrictlyBelow(call.root, uri)

\* ------------------------------------------------------------------ C29
\* C29: the vector locate() returns holds each repository URI at most once,
\* for every tree, root and depth.
C29_NoDuplicates ==
    \A call \in runs :
        \A i, j \in DOMAIN call.repos :
            call.repos[i] = call.repos[j] => i = j

\* C29 witness: a search returned two repositories, one below the other.
C29_Witness ==
    \E call \in runs :
        /\ Len(call.repos) = 2
        /\ \E i, j \in DOMAIN call.repos :
               StrictlyBelow(call.repos[i], call.repos[j])

\* ------------------------------------------------------------------ C30
\* C30: for a CommitAuthor with non-empty name and non-empty email,
\* to_string() is exactly the name, one space, `<`, the email, `>`, with no
\* character of the name or the email removed or altered, whitespace at
\* the edges of the name included.
C30_NothingRemoved ==
    (rendered # NotCalled /\ author.name # <<>> /\ author.email # <<>>) =>
        /\ Len(rendered.value) = Len(author.name) + Len(author.email) + 3
        /\ SubSeq(rendered.value, 1, Len(author.name)) = author.name
        /\ SubSeq(rendered.value, Len(author.name) + 3,
                  Len(rendered.value) - 1) = author.email

====
